---- MODULE Spec2Model ----
(***************************************************************************)
(* hdfmap: the HdfMap / NexusMap index of an HDF hierarchy.                *)
(*                                                                         *)
(* Strings are TLA+ strings handled character by character (Len, SubSeq,   *)
(* \o).  A python dict is a sequence of [k, v] entries in insertion order  *)
(* with unique keys.  A python value that may be None, a str, an int, a    *)
(* dataset read or a raised exception is a tagged record (PyNone, PyStr,   *)
(* ...).  An HDF file is a tree of nodes keyed by the sequence of child    *)
(* keys that leads to the node.                                            *)
(***************************************************************************)
EXTENDS Naturals, Sequences, FiniteSets, TLC

(***************************************************************************)
(* Bounds of the model.                                                    *)
(***************************************************************************)
\* mutating calls (populate, generate_scannables*, set_image_address) per run
MaxCalls == 2

(***************************************************************************)
(* Python values.                                                          *)
(***************************************************************************)
PyNone == [t |-> "None"]
PyStr(s) == [t |-> "str", v |-> s]
PyBytes(s) == [t |-> "bytes", v |-> s]
PyInt(n) == [t |-> "int", v |-> n]
PyDict(d) == [t |-> "dict", v |-> d]
PyList(l) == [t |-> "list", v |-> l]
PyBool(b) == [t |-> "bool", b |-> b]
PyRaise(e) == [t |-> "raise", v |-> e]
\* the array read from dataset `obj` of file `file` with index `idx`
PyData(file, obj, idx) == [t |-> "data", file |-> file, obj |-> obj, idx |-> idx]

\* truth value of an optional string (None and '' are false)
Truthy(x) == x.t = "str" /\ x.v # ""

\* F applied to the value of v, which is computed once
Then(v, F(_)) == CHOOSE r \in {F(x) : x \in {v}} : TRUE

(***************************************************************************)
(* str methods.                                                            *)
(***************************************************************************)
SEP == "/"

Char(s, i) == SubSeq(s, i, i)

Last(seq) == seq[Len(seq)]

\* s.replace(old, new) for single characters
RECURSIVE ReplaceFrom(_, _, _, _)
ReplaceFrom(s, old, new, i) ==
    IF i > Len(s) THEN ""
    ELSE (IF Char(s, i) = old THEN new ELSE Char(s, i)) \o ReplaceFrom(s, old, new, i + 1)

Replace(s, old, new) == ReplaceFrom(s, old, new, 1)

\* s.split(sep): '' gives [''], 'a//' gives ['a', '', '']
RECURSIVE Split(_, _)
Split(s, sep) ==
    IF \A i \in 1..Len(s) : Char(s, i) # sep THEN <<s>>
    ELSE LET i == CHOOSE j \in 1..Len(s) :
                     /\ Char(s, j) = sep
                     /\ \A k \in 1..(j - 1) : Char(s, k) # sep
         IN <<SubSeq(s, 1, i - 1)>> \o Split(SubSeq(s, i + 1, Len(s)), sep)

\* sep.join(parts)
RECURSIVE Join(_, _)
Join(sep, parts) ==
    IF Len(parts) = 0 THEN ""
    ELSE IF Len(parts) = 1 THEN parts[1]
    ELSE parts[1] \o sep \o Join(sep, Tail(parts))

\* s.strip(ch)
RECURSIVE LStrip(_, _)
LStrip(s, ch) ==
    IF Len(s) > 0 /\ Char(s, 1) = ch THEN LStrip(SubSeq(s, 2, Len(s)), ch) ELSE s

RECURSIVE RStrip(_, _)
RStrip(s, ch) ==
    IF Len(s) > 0 /\ Char(s, Len(s)) = ch THEN RStrip(SubSeq(s, 1, Len(s) - 1), ch) ELSE s

Strip(s, ch) == RStrip(LStrip(s, ch), ch)

StartsWith(s, ch) == Len(s) > 0 /\ Char(s, 1) = ch

EndsWith(s, ch) == Len(s) > 0 /\ Char(s, Len(s)) = ch

Contains(s, ch) == \E i \in 1..Len(s) : Char(s, i) = ch

(***************************************************************************)
(* dict: insertion-ordered, unique keys.                                   *)
(***************************************************************************)
EmptyDict == <<>>

DictKeys(d) == {d[i].k : i \in 1..Len(d)}

DictHas(d, key) == \E i \in 1..Len(d) : d[i].k = key

DictGet(d, key) == d[CHOOSE i \in 1..Len(d) : d[i].k = key].v

\* d[key] = val: an existing key keeps its position
DictSet(d, key, val) ==
    IF DictHas(d, key)
    THEN [i \in 1..Len(d) |-> IF d[i].k = key THEN [k |-> key, v |-> val] ELSE d[i]]
    ELSE Append(d, [k |-> key, v |-> val])

\* {**a, **b}
RECURSIVE DictMerge(_, _)
DictMerge(a, b) ==
    IF Len(b) = 0 THEN a
    ELSE Then(DictSet(a, b[1].k, b[1].v), LAMBDA a1 : DictMerge(a1, Tail(b)))

\* the values of d, in order
DictValues(d) == [i \in 1..Len(d) |-> d[i].v]

DictValueSet(d) == {d[i].v : i \in 1..Len(d)}

(***************************************************************************)
(* Address and name utilities.                                             *)
(***************************************************************************)
VALUE == "value"

\* bytes.decode('ascii'): the same characters as a str
Decode(b) == b.v

\* address2name without the replacement of dots
address2name_keeps_dots(a) ==
    LET address == IF a.t = "bytes" THEN Decode(a) ELSE a.v
        name == Last(Split(address, SEP))
    IN IF name = VALUE THEN Last(Split(address, SEP)) ELSE name

\* address2name(address): address is a str or bytes value
address2name(a) ==
    LET address0 == IF a.t = "bytes" THEN Decode(a) ELSE a.v
        address == Replace(address0, ".", "_")
        name == Last(Split(address, SEP))
    IN IF name = VALUE THEN Last(Split(address, SEP)) ELSE name

\* build_address(*args): args is a sequence of str or bytes values
build_address(args) ==
    SEP \o Join(SEP, [i \in 1..Len(args) |->
                        Strip(IF args[i].t = "bytes" THEN Decode(args[i]) ELSE args[i].v, SEP)])

(***************************************************************************)
(* The h5py view of a file.  A node is what the key sequence leads to:     *)
(* a group, a dataset, or nothing (a dangling link); link is the kind of   *)
(* the link that the last key is.                                          *)
(***************************************************************************)
NX_CLASS == "NX_class"
NX_LOCALNAME == "local_name"
NX_DEFAULT == "default"
NX_MEASUREMENT == "measurement"
NX_SIGNAL == "signal"
NX_AXES == "axes"
NX_DETECTOR == "NXdetector"
NX_DETECTOR_DATA == "data"

Attr(key, val) == [k |-> key, v |-> val]

H5Group(attrs, keys) ==
    [type |-> "group", link |-> "hard", attrs |-> attrs, shape |-> <<>>, keys |-> keys]
H5Dataset(attrs, shape) ==
    [type |-> "dataset", link |-> "hard", attrs |-> attrs, shape |-> shape, keys |-> <<>>]
\* a soft link whose target is a dataset of that shape
H5SoftDataset(attrs, shape) ==
    [type |-> "dataset", link |-> "soft", attrs |-> attrs, shape |-> shape, keys |-> <<>>]
\* a soft link whose target does not exist
H5Dangling ==
    [type |-> "none", link |-> "soft", attrs |-> <<>>, shape |-> <<>>, keys |-> <<>>]

\* a scan file: NXentry / NXinstrument / NXdetector / NXdata
File1 ==
    [filename |-> "scan1.nxs",
     tree |->
        (<<>> :> H5Group(<<>>, <<"entry">>))
     @@ (<<"entry">> :> H5Group(<<Attr(NX_CLASS, PyBytes("NXentry"))>>,
                                <<"en", "inst", "measurement", "t.s">>))
     @@ (<<"entry", "en">> :> H5Group(<<>>, <<"value">>))
     @@ (<<"entry", "en", "value">> :> H5Dataset(<<>>, <<>>))
     @@ (<<"entry", "inst">> :> H5Group(<<Attr(NX_CLASS, PyBytes("NXinstrument"))>>,
                                        <<"det", "filename", "x">>))
     @@ (<<"entry", "inst", "filename">> :> H5Dataset(<<>>, <<>>))
     @@ (<<"entry", "inst", "det">> :> H5Group(<<Attr(NX_CLASS, PyStr("NXdetector"))>>,
                                               <<"data">>))
     @@ (<<"entry", "inst", "det", "data">> :> H5Dataset(<<>>, <<2, 2, 1>>))
     @@ (<<"entry", "inst", "x">> :> H5Dataset(<<>>, <<>>))
     @@ (<<"entry", "measurement">> :>
            H5Group(<<Attr(NX_CLASS, PyBytes("NXdata")), Attr(NX_AXES, PyStr("x")),
                      Attr(NX_SIGNAL, PyStr("y"))>>,
                    <<"x", "y">>))
     @@ (<<"entry", "measurement", "x">> :>
            H5Dataset(<<Attr(NX_LOCALNAME, PyBytes("inst.x"))>>, <<2>>))
     @@ (<<"entry", "measurement", "y">> :> H5Dataset(<<>>, <<2>>))
     @@ (<<"entry", "t.s">> :> H5Dataset(<<>>, <<1>>))]

\* a file of the same layout that drifted: no detector, /entry/inst/x became
\* an array, a soft-linked dataset and a dangling link
File2 ==
    [filename |-> "scan2.nxs",
     tree |->
        (<<>> :> H5Group(<<>>, <<"entry">>))
     @@ (<<"entry">> :> H5Group(<<Attr(NX_CLASS, PyBytes("NXentry"))>>,
                                <<"inst", "measurement">>))
     @@ (<<"entry", "inst">> :> H5Group(<<Attr(NX_CLASS, PyBytes("NXinstrument"))>>,
                                        <<"sx", "x">>))
     @@ (<<"entry", "inst", "sx">> :> H5SoftDataset(<<>>, <<2>>))
     @@ (<<"entry", "inst", "x">> :> H5Dataset(<<>>, <<2>>))
     @@ (<<"entry", "measurement">> :>
            H5Group(<<Attr(NX_CLASS, PyBytes("NXdata"))>>, <<"lost", "x">>))
     @@ (<<"entry", "measurement", "lost">> :> H5Dangling)
     @@ (<<"entry", "measurement", "x">> :> H5Dataset(<<>>, <<2>>))]

Files == {File1, File2}

\* files in which a step of the NeXus default chain is missing: no child at
\* all; no measurement group; a measurement group without axes and signal; a
\* default attribute naming an entry that is not there
FileEmpty ==
    [filename |-> "empty.nxs", tree |-> (<<>> :> H5Group(<<>>, <<>>))]

FileNoData ==
    [filename |-> "nodata.nxs",
     tree |->
        (<<>> :> H5Group(<<>>, <<"entry">>))
     @@ (<<"entry">> :> H5Group(<<Attr(NX_CLASS, PyBytes("NXentry"))>>, <<"inst">>))
     @@ (<<"entry", "inst">> :> H5Group(<<>>, <<"x">>))
     @@ (<<"entry", "inst", "x">> :> H5Dataset(<<>>, <<2>>))]

FileNoAxes ==
    [filename |-> "noaxes.nxs",
     tree |->
        (<<>> :> H5Group(<<>>, <<"entry">>))
     @@ (<<"entry">> :> H5Group(<<Attr(NX_CLASS, PyBytes("NXentry"))>>, <<"measurement">>))
     @@ (<<"entry", "measurement">> :>
            H5Group(<<Attr(NX_CLASS, PyBytes("NXdata"))>>, <<"x", "y">>))
     @@ (<<"entry", "measurement", "x">> :> H5Dataset(<<>>, <<2>>))
     @@ (<<"entry", "measurement", "y">> :> H5Dataset(<<>>, <<2>>))]

FileBadDefault ==
    [filename |-> "baddefault.nxs",
     tree |->
        (<<>> :> H5Group(<<Attr(NX_DEFAULT, PyStr("scan"))>>, <<"entry">>))
     @@ (<<"entry">> :> H5Group(<<Attr(NX_CLASS, PyBytes("NXentry"))>>, <<"x">>))
     @@ (<<"entry", "x">> :> H5Dataset(<<>>, <<2>>))]

IncompleteFiles == {FileEmpty, FileNoData, FileNoAxes, FileBadDefault}

\* the path (sequence of keys) that a str address names in a file: empty
\* segments are ignored, as HDF5 does
RECURSIVE NonEmpty(_)
NonEmpty(segs) ==
    IF Len(segs) = 0 THEN <<>>
    ELSE (IF Head(segs) = "" THEN <<>> ELSE <<Head(segs)>>) \o NonEmpty(Tail(segs))

PathOf(address) == NonEmpty(Split(address, SEP))

\* obj.name of the object reached by a path
NameOf(path) == SEP \o Join(SEP, path)

\* group.get(key): the node, or None for a missing key or a dangling link
Resolves(file, path) == path \in DOMAIN file.tree /\ file.tree[path].type # "none"

\* address in hdf_file
H5Contains(file, address) == Resolves(file, PathOf(address))

\* dataset.size and dataset.ndim from dataset.shape
RECURSIVE Product(_)
Product(shape) == IF Len(shape) = 0 THEN 1 ELSE Head(shape) * Product(Tail(shape))

SizeOf(node) == Product(node.shape)

NDim(node) == Len(node.shape)

FileNamed(fname) == CHOOSE f \in Files \cup IncompleteFiles : f.filename = fname

(***************************************************************************)
(* HdfMap: the object is a record m of its fields.  m.log is the record    *)
(* of what the traversal of the current call did with each child entry     *)
(* (the debug logger's lines, with the address the entry has or would      *)
(* have); _debug itself only switches logging.                             *)
(***************************************************************************)
\* HdfMap.__init__
NewMap ==
    [filename |-> "",
     groups |-> EmptyDict, classes |-> EmptyDict, datasets |-> EmptyDict,
     arrays |-> EmptyDict, values |-> EmptyDict, scannables |-> EmptyDict,
     combined |-> EmptyDict, image_data |-> EmptyDict,
     default_image_address |-> PyNone,
     log |-> <<>>]

Namespaces(m) == [values |-> m.values, arrays |-> m.arrays, image_data |-> m.image_data]

LogEntry(what, key, address, name, altname, shape, before, after) ==
    [what |-> what, key |-> key, address |-> address, name |-> name, altname |-> altname,
     shape |-> shape, before |-> before, after |-> after]

\* classes[tag] kept free of duplicates: an address already listed is not
\* appended again
ClassesAdd_once(classes, tag, address) ==
    IF ~DictHas(classes, tag) THEN DictSet(classes, tag, <<address>>)
    ELSE IF \E i \in 1..Len(DictGet(classes, tag)) : DictGet(classes, tag)[i] = address
    THEN classes
    ELSE DictSet(classes, tag, Append(DictGet(classes, tag), address))

\* classes[tag].append(address), or classes[tag] = [address]
ClassesAdd(classes, tag, address) ==
    IF ~DictHas(classes, tag) THEN DictSet(classes, tag, <<address>>)
    ELSE DictSet(classes, tag, Append(DictGet(classes, tag), address))

\* the nx_class that _store_group reads: decoded bytes, the str as it is
\* (AttributeError branch), 'Group' without the attribute
NxClassOf(node) ==
    IF DictHas(node.attrs, NX_CLASS)
    THEN (IF DictGet(node.attrs, NX_CLASS).t = "bytes"
          THEN Decode(DictGet(node.attrs, NX_CLASS))
          ELSE DictGet(node.attrs, NX_CLASS).v)
    ELSE "Group"

\* [key for key in hdf_group.keys() if isinstance(hdf_group.get(key), h5py.Dataset)]
RECURSIVE DatasetKeysFrom(_, _, _)
DatasetKeysFrom(file, gpath, keys) ==
    IF Len(keys) = 0 THEN <<>>
    ELSE (IF Resolves(file, gpath \o <<Head(keys)>>)
             /\ file.tree[gpath \o <<Head(keys)>>].type = "dataset"
          THEN <<Head(keys)>> ELSE <<>>)
         \o DatasetKeysFrom(file, gpath, Tail(keys))

\* HdfMap._store_group
_store_group(m, file, gpath, address, name) ==
    LET node == file.tree[gpath]
        nx_class == NxClassOf(node)
        c1 == ClassesAdd(m.classes, name, address)
        c2 == ClassesAdd(c1, nx_class, address)
    IN [m EXCEPT
          !.groups = DictSet(m.groups, address,
                             [nx_class |-> nx_class, name |-> name, attrs |-> node.attrs,
                              datasets |-> DatasetKeysFrom(file, gpath, node.keys)]),
          !.classes = c2]

\* _store_dataset taking only more than 3 dimensions for image data
_store_dataset_above_3d(m, node, address, name, altname) ==
    LET rec == [name |-> name, size |-> SizeOf(node), shape |-> node.shape,
                attrs |-> node.attrs]
        m1 == [m EXCEPT !.datasets = DictSet(m.datasets, address, rec)]
        segs == Split(address, SEP)
        det_name == segs[Len(segs) - 1] \o "_" \o name
    IN IF NDim(node) > 3
       THEN [m1 EXCEPT
               !.image_data = DictSet(DictSet(m1.image_data, name, address), det_name, address),
               !.arrays = DictSet(DictSet(m1.arrays, name, address), altname, address)]
       ELSE IF NDim(node) > 0
       THEN [m1 EXCEPT !.arrays = DictSet(DictSet(m1.arrays, name, address), altname, address)]
       ELSE [m1 EXCEPT !.values = DictSet(DictSet(m1.values, name, address), altname, address)]

\* HdfMap._store_dataset
_store_dataset(m, node, address, name, altname) ==
    LET rec == [name |-> name, size |-> SizeOf(node), shape |-> node.shape,
                attrs |-> node.attrs]
        m1 == [m EXCEPT !.datasets = DictSet(m.datasets, address, rec)]
        segs == Split(address, SEP)
        det_name == segs[Len(segs) - 1] \o "_" \o name
    IN IF NDim(node) >= 3
       THEN [m1 EXCEPT
               !.image_data = DictSet(DictSet(m1.image_data, name, address), det_name, address),
               !.arrays = DictSet(DictSet(m1.arrays, name, address), altname, address)]
       ELSE IF NDim(node) > 0
       THEN [m1 EXCEPT !.arrays = DictSet(DictSet(m1.arrays, name, address), altname, address)]
       ELSE [m1 EXCEPT !.values = DictSet(DictSet(m1.values, name, address), altname, address)]

\* groups: None or a list of names
InFilter(groups, key, nx_class) ==
    IF groups.t = "list" /\ Len(groups.v) > 0
    THEN (\E i \in 1..Len(groups.v) : groups.v[i] = key)
         \/ (\E i \in 1..Len(groups.v) : groups.v[i] = nx_class)
    ELSE TRUE

\* HdfMap._populate: PopulateKey is one pass of the loop body, PopulateFrom
\* the loop from the i-th key on
RECURSIVE _populate(_, _, _, _, _, _)
RECURSIVE PopulateFrom(_, _, _, _, _, _, _)
PopulateKey(m, file, gpath, top_address, recursive, groups, key) ==
    LET path == gpath \o <<key>>
    IN IF ~Resolves(file, path)
       THEN [m EXCEPT !.log = Append(m.log,
                 LogEntry("skipped", key, top_address \o SEP \o key, "", "", <<>>,
                          Namespaces(m), Namespaces(m)))]
       ELSE
         LET obj == file.tree[path]
             address == top_address \o SEP \o key
             name == address2name(PyStr(address))
             altname == IF DictHas(obj.attrs, NX_LOCALNAME)
                        THEN address2name(DictGet(obj.attrs, NX_LOCALNAME))
                        ELSE name
         IN IF obj.type = "group"
            THEN LET m1 == _store_group(m, file, path, address, name)
                     m2 == [m1 EXCEPT !.log = Append(m1.log,
                              LogEntry("group", key, address, name, altname, <<>>,
                                       Namespaces(m), Namespaces(m1)))]
                 IN IF recursive /\ InFilter(groups, key, NxClassOf(obj))
                    THEN Then(m2, LAMBDA mg : _populate(mg, file, path, address, recursive, PyNone))
                    ELSE m2
            ELSE IF obj.type = "dataset" /\ obj.link # "soft"
            THEN LET m1 == _store_dataset(m, obj, address, name, altname)
                 IN [m1 EXCEPT !.log = Append(m1.log,
                        LogEntry("dataset", key, address, name, altname, obj.shape,
                                 Namespaces(m), Namespaces(m1)))]
            ELSE [m EXCEPT !.log = Append(m.log,
                     LogEntry("softlink", key, address, name, altname, obj.shape,
                              Namespaces(m), Namespaces(m)))]

\* the loop leaving at the first key that does not resolve
RECURSIVE PopulateFrom_until_dangling(_, _, _, _, _, _, _)
PopulateFrom_until_dangling(m, file, gpath, top_address, recursive, groups, i) ==
    IF i > Len(file.tree[gpath].keys) THEN m
    ELSE IF ~Resolves(file, gpath \o <<file.tree[gpath].keys[i]>>)
    THEN PopulateKey(m, file, gpath, top_address, recursive, groups, file.tree[gpath].keys[i])
    ELSE Then(PopulateKey(m, file, gpath, top_address, recursive, groups, file.tree[gpath].keys[i]),
              LAMBDA m1 : PopulateFrom_until_dangling(m1, file, gpath, top_address, recursive,
                                                      groups, i + 1))

PopulateFrom(m, file, gpath, top_address, recursive, groups, i) ==
    IF i > Len(file.tree[gpath].keys) THEN m
    ELSE Then(PopulateKey(m, file, gpath, top_address, recursive, groups, file.tree[gpath].keys[i]),
              LAMBDA m1 : PopulateFrom(m1, file, gpath, top_address, recursive, groups, i + 1))

_populate(m, file, gpath, top_address, recursive, groups) ==
    PopulateFrom(m, file, gpath, top_address, recursive, groups, 1)

\* what a method call leaves: the object and the value returned or raised
Outcome(m, ret) == [m |-> m, ret |-> ret]

Raised(o) == o.ret.t = "raise"

\* HdfMap.populate (HdfMap._load_defaults does nothing)
populate(m, file) ==
    LET m1 == [m EXCEPT !.filename = file.filename]
    IN Outcome(_populate(m1, file, <<>>, "", TRUE, PyNone), PyNone)

\* generate_combined with values overlaid last
generate_combined_values_last(m) ==
    [m EXCEPT !.combined = DictMerge(DictMerge(m.arrays, m.scannables), m.values)]

\* HdfMap.generate_combined
generate_combined(m) ==
    [m EXCEPT !.combined = DictMerge(DictMerge(m.values, m.arrays), m.scannables)]

\* the entries of d, in order, whose address has a DatasetRecord of that size
RECURSIVE OfSize(_, _, _)
OfSize(d, datasets, array_size) ==
    IF Len(d) = 0 THEN <<>>
    ELSE (IF DictGet(datasets, Head(d).v).size = array_size THEN <<Head(d)>> ELSE <<>>)
         \o OfSize(Tail(d), datasets, array_size)

\* HdfMap.generate_scannables: self.datasets[v] raises KeyError for an
\* address without DatasetRecord, before scannables is assigned
generate_scannables(m, array_size) ==
    IF \E i \in 1..Len(m.arrays) : ~DictHas(m.datasets, m.arrays[i].v)
    THEN Outcome(m, PyRaise("KeyError"))
    ELSE Outcome(generate_combined(
                    [m EXCEPT !.scannables = OfSize(m.arrays, m.datasets, array_size)]),
                 PyNone)

\* {k: build_address(address, k) for k in hdf_group
\*    if isinstance(hdf_group[k], h5py.Dataset) and hdf_group[k].size == array_size}
RECURSIVE GroupScannables(_, _, _, _, _)
GroupScannables(file, gpath, keys, address, array_size) ==
    IF Len(keys) = 0 THEN <<>>
    ELSE LET node == file.tree[gpath \o <<Head(keys)>>]
         IN (IF node.type = "dataset" /\ SizeOf(node) = array_size
             THEN <<[k |-> Head(keys), v |-> build_address(<<PyStr(address), PyStr(Head(keys))>>)]>>
             ELSE <<>>)
            \o GroupScannables(file, gpath, Tail(keys), address, array_size)

\* HdfMap.generate_scannables_from_group(hdf_group, group_address): the group
\* is the one at gpath of file; group_address is None or a str
generate_scannables_from_group(m, file, gpath, group_address) ==
    LET keys == file.tree[gpath].keys
    IN IF Len(keys) = 0 THEN Outcome(m, PyRaise("StopIteration"))
       ELSE IF ~Resolves(file, gpath \o <<keys[1]>>) THEN Outcome(m, PyRaise("KeyError"))
       ELSE IF file.tree[gpath \o <<keys[1]>>].type = "group"
       THEN Outcome(m, PyRaise("AttributeError"))
       ELSE
         LET array_size == SizeOf(file.tree[gpath \o <<keys[1]>>])
             address == IF group_address.t = "None" THEN NameOf(gpath) ELSE group_address.v
         IN Then(_populate(m, file, gpath, address, FALSE, PyNone), LAMBDA m1 :
              IF \E i \in 1..Len(keys) : ~Resolves(file, gpath \o <<keys[i]>>)
              THEN Outcome(m1, PyRaise("KeyError"))
              ELSE Outcome(generate_combined(
                              [m1 EXCEPT !.scannables =
                                  GroupScannables(file, gpath, keys, address, array_size)]),
                           PyNone))

\* [address2name(name) for name in names if address2name(name) in self.arrays]
RECURSIVE ArrayNames(_, _)
ArrayNames(arrays, names) ==
    IF Len(names) = 0 THEN <<>>
    ELSE (IF DictHas(arrays, address2name(PyStr(Head(names))))
          THEN <<address2name(PyStr(Head(names)))>> ELSE <<>>)
         \o ArrayNames(arrays, Tail(names))

\* {name: self.arrays[name] for name in array_names if size matches}
RECURSIVE NamedScannables(_, _, _, _)
NamedScannables(m, array_names, array_size, acc) ==
    IF Len(array_names) = 0 THEN acc
    ELSE Then(IF DictGet(m.datasets, DictGet(m.arrays, Head(array_names))).size = array_size
              THEN DictSet(acc, Head(array_names), DictGet(m.arrays, Head(array_names)))
              ELSE acc,
              LAMBDA acc1 : NamedScannables(m, Tail(array_names), array_size, acc1))

\* HdfMap.generate_scannables_from_names
generate_scannables_from_names(m, names) ==
    LET array_names == ArrayNames(m.arrays, names)
    IN IF Len(array_names) = 0 THEN Outcome(m, PyRaise("IndexError"))
       ELSE IF \E i \in 1..Len(array_names) :
                  ~DictHas(m.datasets, DictGet(m.arrays, array_names[i]))
       THEN Outcome(m, PyRaise("KeyError"))
       ELSE LET array_size == DictGet(m.datasets, DictGet(m.arrays, array_names[1])).size
            IN Outcome(generate_combined(
                          [m EXCEPT !.scannables =
                              NamedScannables(m, array_names, array_size, EmptyDict)]),
                       PyNone)

\* array_sizes of most_common_size: the sizes above 1 of the DatasetRecords
\* of the arrays entries, one per entry
RECURSIVE ArraySizesAbove1(_, _)
ArraySizesAbove1(arrs, datasets) ==
    IF Len(arrs) = 0 THEN <<>>
    ELSE (IF DictGet(datasets, Head(arrs).v).size > 1
          THEN <<DictGet(datasets, Head(arrs).v).size>> ELSE <<>>)
         \o ArraySizesAbove1(Tail(arrs), datasets)

\* array_sizes.count(size)
Count(sizes, size) == Cardinality({i \in 1..Len(sizes) : sizes[i] = size})

\* HdfMap.most_common_size: what the call may return or raise.  max over a
\* set returns the first element of greatest count in the iteration order of
\* the set, which python leaves open: any size of greatest count
most_common_size(m) ==
    IF \E i \in 1..Len(m.arrays) : ~DictHas(m.datasets, m.arrays[i].v)
    THEN {PyRaise("KeyError")}
    ELSE LET array_sizes == ArraySizesAbove1(m.arrays, m.datasets)
         IN IF Len(array_sizes) = 0 THEN {PyRaise("ValueError")}
            ELSE {PyInt(array_sizes[i]) : i \in
                    {j \in 1..Len(array_sizes) :
                        \A k \in 1..Len(array_sizes) :
                            Count(array_sizes, array_sizes[k])
                                <= Count(array_sizes, array_sizes[j])}}

\* HdfMap.scannables_length
scannables_length(m) ==
    IF Len(m.scannables) = 0 THEN PyInt(0)
    ELSE LET address == m.scannables[1].v
         IN IF ~DictHas(m.datasets, address) THEN PyRaise("KeyError")
            ELSE IF Len(DictGet(m.datasets, address).shape) = 0 THEN PyRaise("IndexError")
            ELSE PyInt(DictGet(m.datasets, address).shape[1])

\* key in d, for a key that may be None
Has(d, x) == x.t = "str" /\ DictHas(d, x.v)

\* get_address without the look in groups: a group address falls through
get_address_datasets_only(m, name_or_address) ==
    IF Has(m.datasets, name_or_address)
    THEN name_or_address
    ELSE IF Has(m.combined, name_or_address)
    THEN PyStr(DictGet(m.combined, name_or_address.v))
    ELSE IF Has(m.image_data, name_or_address)
    THEN PyStr(DictGet(m.image_data, name_or_address.v))
    ELSE IF Has(m.classes, name_or_address)
    THEN PyStr(DictGet(m.classes, name_or_address.v)[1])
    ELSE PyNone

\* HdfMap.get_address
get_address(m, name_or_address) ==
    IF Has(m.datasets, name_or_address) \/ Has(m.groups, name_or_address)
    THEN name_or_address
    ELSE IF Has(m.combined, name_or_address)
    THEN PyStr(DictGet(m.combined, name_or_address.v))
    ELSE IF Has(m.image_data, name_or_address)
    THEN PyStr(DictGet(m.image_data, name_or_address.v))
    ELSE IF Has(m.classes, name_or_address)
    THEN PyStr(DictGet(m.classes, name_or_address.v)[1])
    ELSE PyNone

\* the while loop of get_group_address: address with its last segment taken
\* off until it is a key of groups or empty; steps counts the iterations
RECURSIVE GroupWalk(_, _, _)
GroupWalk(m, address, steps) ==
    IF Truthy(address) /\ ~Has(m.groups, address)
    THEN LET parts == Split(address.v, SEP)
         IN GroupWalk(m, PyStr(Join(SEP, SubSeq(parts, 1, Len(parts) - 1))), steps + 1)
    ELSE [address |-> address, steps |-> steps]

\* get_group_address with an if in place of the while: one segment is taken off
get_group_address_one_level(m, name_or_address) ==
    LET address == get_address(m, name_or_address)
    IN IF Truthy(address) /\ ~Has(m.groups, address)
       THEN LET parts == Split(address.v, SEP)
            IN PyStr(Join(SEP, SubSeq(parts, 1, Len(parts) - 1)))
       ELSE address

\* HdfMap.get_group_address
get_group_address(m, name_or_address) ==
    GroupWalk(m, get_address(m, name_or_address), 0).address

\* HdfMap.set_image_address
set_image_address(m, name_or_address) ==
    IF name_or_address.t = "None" THEN [m EXCEPT !.default_image_address = PyNone]
    ELSE LET address == get_address(m, name_or_address)
         IN IF Truthy(address) THEN [m EXCEPT !.default_image_address = address] ELSE m

\* HdfMap.get_image_address
HdfMap_get_image_address(m) ==
    IF Truthy(m.default_image_address) THEN m.default_image_address
    ELSE IF Len(m.image_data) > 0 THEN PyStr(m.image_data[1].v)
    ELSE PyNone

\* NexusMap.get_image_address
NexusMap_get_image_address(m) ==
    IF DictHas(m.image_data, NX_DETECTOR) THEN PyStr(DictGet(m.image_data, NX_DETECTOR))
    ELSE PyNone

\* hdf_file[address][index]: a group takes only str keys
H5Read(file, address, index) ==
    IF file.tree[PathOf(address)].type = "group" THEN PyRaise("TypeError")
    ELSE PyData(file.filename, PathOf(address), index)

\* get_data without the test address in hdf_file: h5py raises KeyError for
\* an address that the file lacks
get_data_unchecked(m, file, name_or_address, index, default) ==
    LET address == get_address(m, name_or_address)
    IN IF Truthy(address)
       THEN (IF H5Contains(file, address.v) THEN H5Read(file, address.v, index)
             ELSE PyRaise("KeyError"))
       ELSE default

\* HdfMap.get_data
get_data(m, file, name_or_address, index, default) ==
    LET address == get_address(m, name_or_address)
    IN IF Truthy(address) /\ H5Contains(file, address.v)
       THEN H5Read(file, address.v, index)
       ELSE default

\* HdfMap.__getitem__: item is a str, or the int index that the sequence
\* protocol passes
getitem(m, item) ==
    IF Has(m.combined, item) THEN PyStr(DictGet(m.combined, item.v)) ELSE PyRaise("KeyError")

\* item in map: HdfMap defines neither __contains__ nor __iter__, so python
\* calls __getitem__ with 0, 1, 2, ... until IndexError, and compares
RECURSIVE contains(_, _, _)
contains(m, item, i) ==
    LET got == getitem(m, PyInt(i))
    IN IF got = PyRaise("IndexError") THEN PyBool(FALSE)
       ELSE IF got.t = "raise" THEN got
       ELSE IF got = item THEN PyBool(TRUE)
       ELSE contains(m, item, i + 1)

\* [item for item in map]: the same protocol
RECURSIVE iterate(_, _, _)
iterate(m, i, items) ==
    LET got == getitem(m, PyInt(i))
    IN IF got = PyRaise("IndexError") THEN PyList(items)
       ELSE IF got.t = "raise" THEN got
       ELSE iterate(m, i + 1, Append(items, got))

\* extra_hdf_data(hdf_file): the contextual pairs of the handle, the file path
\* and the file name
extra_hdf_data(file) ==
    <<[k |-> "filepath", v |-> PyStr("data/" \o file.filename)],
      [k |-> "filename", v |-> PyStr(file.filename)]>>

\* {name: hdf_file[address][()] if address in hdf_file else default
\*    for name, address in self.values.items()}
RECURSIVE MetadataOf(_, _, _)
MetadataOf(vals, file, default) ==
    IF Len(vals) = 0 THEN EmptyDict
    ELSE <<[k |-> Head(vals).k,
            v |-> IF H5Contains(file, Head(vals).v) THEN H5Read(file, Head(vals).v, "()")
                  ELSE default]>>
         \o MetadataOf(Tail(vals), file, default)

\* get_metadata with the extras overlaid last
get_metadata_extras_last(m, file, default) ==
    PyDict(DictMerge(MetadataOf(m.values, file, default), extra_hdf_data(file)))

\* HdfMap.get_metadata
get_metadata(m, file, default) ==
    PyDict(DictMerge(extra_hdf_data(file), MetadataOf(m.values, file, default)))

(***************************************************************************)
(* NexusMap.                                                               *)
(***************************************************************************)
\* the text of a str or bytes attribute value
TextOf(val) == IF val.t = "bytes" THEN Decode(val) ELSE val.v

\* hdf_object.attrs["default"] if "default" in hdf_object.attrs
\*   else next(iter(hdf_object.keys())): a key, or StopIteration
DefaultEntryKey(file) ==
    LET root == file.tree[<<>>]
    IN IF DictHas(root.attrs, NX_DEFAULT) THEN PyStr(TextOf(DictGet(root.attrs, NX_DEFAULT)))
       ELSE IF Len(root.keys) = 0 THEN PyRaise("StopIteration")
       ELSE PyStr(root.keys[1])

\* nx_entry.attrs["default"] if "default" in nx_entry.attrs else "measurement"
DefaultDataKey(file, entry) ==
    IF DictHas(file.tree[entry].attrs, NX_DEFAULT)
    THEN TextOf(DictGet(file.tree[entry].attrs, NX_DEFAULT))
    ELSE NX_MEASUREMENT

\* the names under nx_data that the "axes" attribute gives: one str, or a list
AxesKeys(val) == IF val.t = "list" THEN val.v ELSE <<TextOf(val)>>

\* get_nexus_axes_datasets: the exception raised, or the paths of the axes
\* datasets and of the signal dataset
get_nexus_axes_datasets(file) ==
    LET key == DefaultEntryKey(file)
    IN IF key.t = "raise" THEN [exc |-> key.v, axes |-> <<>>, signal |-> <<>>]
       ELSE IF ~Resolves(file, PathOf(key.v))
       THEN [exc |-> "KeyError", axes |-> <<>>, signal |-> <<>>]
       ELSE
         LET entry == PathOf(key.v)
             data == entry \o PathOf(DefaultDataKey(file, entry))
         IN IF ~Resolves(file, data) THEN [exc |-> "KeyError", axes |-> <<>>, signal |-> <<>>]
            ELSE
              LET attrs == file.tree[data].attrs
              IN IF ~DictHas(attrs, NX_AXES)
                 THEN [exc |-> "KeyError", axes |-> <<>>, signal |-> <<>>]
                 ELSE
                   LET axes == AxesKeys(DictGet(attrs, NX_AXES))
                   IN IF \E i \in 1..Len(axes) : ~Resolves(file, data \o PathOf(axes[i]))
                      THEN [exc |-> "KeyError", axes |-> <<>>, signal |-> <<>>]
                      ELSE IF ~DictHas(attrs, NX_SIGNAL)
                      THEN [exc |-> "KeyError", axes |-> <<>>, signal |-> <<>>]
                      ELSE IF ~Resolves(file, data \o PathOf(TextOf(DictGet(attrs, NX_SIGNAL))))
                      THEN [exc |-> "KeyError", axes |-> <<>>, signal |-> <<>>]
                      ELSE [exc |-> "",
                            axes |-> [i \in 1..Len(axes) |-> data \o PathOf(axes[i])],
                            signal |-> data \o PathOf(TextOf(DictGet(attrs, NX_SIGNAL)))]

\* NexusMap._load_defaults: only KeyError is caught
NexusMap_load_defaults(m, file) ==
    LET found == get_nexus_axes_datasets(file)
    IN IF found.exc = "KeyError" THEN Outcome(m, PyNone)
       ELSE IF found.exc # "" THEN Outcome(m, PyRaise(found.exc))
       ELSE IF Len(found.axes) = 0 THEN Outcome(m, PyRaise("IndexError"))
       ELSE
         LET m1 == IF H5Contains(file, NameOf(found.axes[1]))
                   THEN [m EXCEPT !.arrays = DictSet(m.arrays, NX_AXES, NameOf(found.axes[1]))]
                   ELSE m
             m2 == IF H5Contains(file, NameOf(found.signal))
                   THEN [m1 EXCEPT !.arrays = DictSet(m1.arrays, NX_SIGNAL, NameOf(found.signal))]
                   ELSE m1
         IN Outcome(m2, PyNone)

\* the end of NexusMap.populate: the NXdetector group's data as image data
NexusDetector(m, file) ==
    IF DictHas(m.classes, NX_DETECTOR)
    THEN LET address == DictGet(m.classes, NX_DETECTOR)[1] \o SEP \o NX_DETECTOR_DATA
         IN IF H5Contains(file, address)
            THEN [m EXCEPT !.image_data = DictSet(m.image_data, NX_DETECTOR, address)]
            ELSE m
    ELSE m

\* NexusMap.populate(hdf_file, groups)
NexusMap_populate(m, file, groups) ==
    LET key == DefaultEntryKey(file)
    IN Then(NexusMap_load_defaults([m EXCEPT !.filename = file.filename], file), LAMBDA loaded :
         IF Raised(loaded) THEN loaded
         ELSE IF key.t = "raise" THEN Outcome(loaded.m, key)
         ELSE IF ~Resolves(file, PathOf(key.v)) THEN Outcome(loaded.m, PyRaise("KeyError"))
         ELSE
           LET entry == PathOf(key.v)
               data == entry \o PathOf(DefaultDataKey(file, entry))
           IN Then(_populate(loaded.m, file, entry, NameOf(entry), TRUE, groups), LAMBDA m2 :
                Then(IF Resolves(file, data)
                     THEN generate_scannables_from_group(m2, file, data, PyNone)
                     ELSE Outcome(m2, PyNone),
                     LAMBDA scanned :
                       IF Raised(scanned) THEN scanned
                       ELSE Outcome(NexusDetector(scanned.m, file), PyNone))))

(***************************************************************************)
(* The state: one map object (of class cls), the last call made on it      *)
(* (op), what that call returned or raised (ret), and the calls so far     *)
(* that write to the map, each with whether it raised (calls).             *)
(***************************************************************************)
VARIABLES cls, filename, groups, classes, datasets, arrays, values, scannables,
          combined, image_data, default_image_address, log, op, ret, calls

mapvars == <<filename, groups, classes, datasets, arrays, values, scannables,
             combined, image_data, default_image_address>>

vars == <<cls, filename, groups, classes, datasets, arrays, values, scannables,
          combined, image_data, default_image_address, log, op, ret, calls>>

\* the map object as a record
Self ==
    [filename |-> filename,
     groups |-> groups, classes |-> classes, datasets |-> datasets,
     arrays |-> arrays, values |-> values, scannables |-> scannables,
     combined |-> combined, image_data |-> image_data,
     default_image_address |-> default_image_address,
     log |-> log]

\* the map object becomes m
Becomes(m) ==
    /\ filename' = m.filename
    /\ groups' = m.groups
    /\ classes' = m.classes
    /\ datasets' = m.datasets
    /\ arrays' = m.arrays
    /\ values' = m.values
    /\ scannables' = m.scannables
    /\ combined' = m.combined
    /\ image_data' = m.image_data
    /\ default_image_address' = m.default_image_address
    /\ log' = m.log

\* the call recorded in op
Call(name, file, path, arg, n, names, dflt) ==
    [name |-> name, file |-> file, path |-> path, arg |-> arg, n |-> n, names |-> names,
     dflt |-> dflt]

NoCall == Call("", "", <<>>, PyNone, 0, <<>>, PyNone)

\* a call that changes the map: its traversal log starts empty
Mutates(outcome, call) ==
    /\ Len(calls) < MaxCalls
    /\ \E o \in {outcome} :
           /\ Becomes(o.m)
           /\ ret' = o.ret
           /\ calls' = Append(calls, [name |-> call.name, raised |-> Raised(o)])
    /\ op' = call
    /\ UNCHANGED cls

\* a call that only reads the map
Reads(result, call) ==
    /\ ret' = result
    /\ op' = call
    /\ UNCHANGED <<cls, mapvars, log, calls>>

Fresh == [Self EXCEPT !.log = <<>>]

(***************************************************************************)
(* The arguments the calls are made with.                                  *)
(***************************************************************************)
\* groups argument of NexusMap.populate
GroupFilters == {PyNone, [t |-> "list", v |-> <<"NXinstrument">>]}

\* array_size argument of generate_scannables
ArraySizes == {2, 4}

\* (hdf_group, group_address) arguments of generate_scannables_from_group
GroupCalls ==
    {[file |-> "scan1.nxs", path |-> <<"entry", "measurement">>, address |-> PyNone],
     [file |-> "scan1.nxs", path |-> <<"entry", "measurement">>,
      address |-> PyStr("entry/measurement")],
     [file |-> "scan1.nxs", path |-> <<"entry", "en">>, address |-> PyNone],
     [file |-> "scan1.nxs", path |-> <<"entry", "inst">>, address |-> PyNone],
     [file |-> "scan2.nxs", path |-> <<"entry", "inst">>, address |-> PyNone],
     [file |-> "scan2.nxs", path |-> <<"entry", "measurement">>, address |-> PyNone]}

\* names argument of generate_scannables_from_names
NameLists == {<<"x", "y">>, <<"/entry/inst/det/data", "t.s">>, <<"nothing">>}

\* name_or_address arguments
Lookups ==
    {PyNone, PyStr("x"), PyStr("det_data"), PyStr("NXdata"), PyStr("nothing"),
     PyStr("/entry/inst/x"), PyStr("/entry/measurement")}

\* name_or_address arguments of get_data
DataLookups == {PyStr("sx"), PyStr("data"), PyStr("nothing")}

\* name_or_address arguments of set_image_address
ImageLookups == {PyNone, PyStr("y"), PyStr("nothing")}

\* default argument of get_data
Defaults == {PyNone, PyInt(0)}

(***************************************************************************)
(* The calls.                                                              *)
(***************************************************************************)
Init ==
    /\ cls \in {"HdfMap", "NexusMap"}
    /\ filename = NewMap.filename
    /\ groups = NewMap.groups
    /\ classes = NewMap.classes
    /\ datasets = NewMap.datasets
    /\ arrays = NewMap.arrays
    /\ values = NewMap.values
    /\ scannables = NewMap.scannables
    /\ combined = NewMap.combined
    /\ image_data = NewMap.image_data
    /\ default_image_address = NewMap.default_image_address
    /\ log = NewMap.log
    /\ op = NoCall
    /\ ret = PyNone
    /\ calls = <<>>

Populate ==
    \E f \in Files :
        /\ cls = "HdfMap"
        /\ Mutates(populate(Fresh, f),
                   Call("populate", f.filename, <<>>, PyNone, 0, <<>>, PyNone))

NexusPopulate ==
    \E f \in Files, g \in GroupFilters :
        /\ cls = "NexusMap"
        /\ Mutates(NexusMap_populate(Fresh, f, g),
                   Call("populate", f.filename, <<>>, g, 0, <<>>, PyNone))

GenerateScannables ==
    \E n \in ArraySizes :
        Mutates(generate_scannables(Fresh, n),
                Call("generate_scannables", "", <<>>, PyNone, n, <<>>, PyNone))

GenerateScannablesFromGroup ==
    \E c \in GroupCalls :
        Mutates(generate_scannables_from_group(Fresh, FileNamed(c.file), c.path, c.address),
                Call("generate_scannables_from_group", c.file, c.path, c.address, 0, <<>>, PyNone))

GenerateScannablesFromNames ==
    \E names \in NameLists :
        Mutates(generate_scannables_from_names(Fresh, names),
                Call("generate_scannables_from_names", "", <<>>, PyNone, 0, names, PyNone))

SetImageAddress ==
    \E x \in ImageLookups :
        Mutates(Outcome(set_image_address(Fresh, x), PyNone),
                Call("set_image_address", "", <<>>, x, 0, <<>>, PyNone))

GetAddress ==
    \E x \in Lookups :
        Reads(get_address(Self, x), Call("get_address", "", <<>>, x, 0, <<>>, PyNone))

GetData ==
    \E f \in Files, x \in DataLookups, d \in Defaults :
        Reads(get_data(Self, f, x, "()", d), Call("get_data", f.filename, <<>>, x, 0, <<>>, d))

ScannablesLength ==
    Reads(scannables_length(Self), Call("scannables_length", "", <<>>, PyNone, 0, <<>>, PyNone))

GetImageAddress ==
    Reads(IF cls = "NexusMap" THEN NexusMap_get_image_address(Self)
          ELSE HdfMap_get_image_address(Self),
          Call("get_image_address", "", <<>>, PyNone, 0, <<>>, PyNone))

GetMetadata ==
    \E f \in Files, d \in Defaults :
        Reads(get_metadata(Self, f, d), Call("get_metadata", f.filename, <<>>, PyNone, 0, <<>>, d))

Next ==
    \/ Populate
    \/ NexusPopulate
    \/ GenerateScannables
    \/ GenerateScannablesFromGroup
    \/ GenerateScannablesFromNames
    \/ SetImageAddress
    \/ GetAddress
    \/ GetData
    \/ ScannablesLength
    \/ GetImageAddress

Spec == Init /\ [][Next]_vars

(***************************************************************************)
(* The same map object with the calls that read through its namespaces.    *)
(***************************************************************************)
\* item arguments of map[item] and item in map
Items == {PyStr("x"), PyStr("nothing")}

GetItem ==
    \E x \in Items :
        Reads(getitem(Self, x), Call("__getitem__", "", <<>>, x, 0, <<>>, PyNone))

HasItem ==
    \E x \in Items :
        Reads(contains(Self, x, 0), Call("__contains__", "", <<>>, x, 0, <<>>, PyNone))

Iterate ==
    Reads(iterate(Self, 0, <<>>), Call("__iter__", "", <<>>, PyNone, 0, <<>>, PyNone))

MostCommonSize ==
    \E r \in most_common_size(Self) :
        Reads(r, Call("most_common_size", "", <<>>, PyNone, 0, <<>>, PyNone))

NextViews ==
    \/ Populate
    \/ NexusPopulate
    \/ GenerateScannables
    \/ GenerateScannablesFromGroup
    \/ GenerateScannablesFromNames
    \/ SetImageAddress
    \/ GetMetadata
    \/ GetItem
    \/ HasItem
    \/ Iterate
    \/ MostCommonSize

SpecViews == Init /\ [][NextViews]_vars

(***************************************************************************)
(* A NexusMap populated with files that miss a step of the default chain.  *)
(***************************************************************************)
InitIncomplete == Init /\ cls = "NexusMap"

NexusPopulateIncomplete ==
    \E f \in IncompleteFiles, g \in GroupFilters :
        /\ cls = "NexusMap"
        /\ Mutates(NexusMap_populate(Fresh, f, g),
                   Call("populate", f.filename, <<>>, g, 0, <<>>, PyNone))

NextIncomplete ==
    \/ NexusPopulateIncomplete
    \/ GetAddress
    \/ ScannablesLength
    \/ GetImageAddress

SpecIncomplete == InitIncomplete /\ [][NextIncomplete]_vars

(***************************************************************************)
(* The group of an object: maps of both classes, traversed from the root,  *)
(* from the entry or from a group with an address of the caller, are asked *)
(* for the group address of names and addresses.                           *)
(***************************************************************************)
\* name_or_address arguments of get_group_address
GroupLookups ==
    {PyNone, PyStr("x"), PyStr("data"), PyStr("t_s"), PyStr("NXdata"), PyStr("nothing"),
     PyStr("/entry/inst/det/data"), PyStr("/entry/inst"), PyStr("entry/measurement/x")}

GetGroupAddress ==
    \E x \in GroupLookups :
        Reads(get_group_address(Self, x),
              Call("get_group_address", "", <<>>, x, 0, <<>>, PyNone))

NextGroups ==
    \/ Populate
    \/ NexusPopulate
    \/ GenerateScannablesFromGroup
    \/ GetGroupAddress

SpecGroups == Init /\ [][NextGroups]_vars

(***************************************************************************)
(* The address utilities on their own: an address is drawn, then           *)
(* address2name is applied to it.                                          *)
(***************************************************************************)
\* segments per drawn address
MaxSegs == 3

Segments == {"", "value", "a.b", "en"}

RECURSIVE SegLists(_)
SegLists(n) ==
    IF n = 0 THEN {<<>>}
    ELSE {<<>>} \cup {<<seg>> \o rest : seg \in Segments, rest \in SegLists(n - 1)}

\* the addresses drawn, as str and as bytes
DrawnAddresses ==
    {PyStr(Join(SEP, segs)) : segs \in SegLists(MaxSegs) \ {<<>>}}
    \cup {PyBytes(Join(SEP, segs)) : segs \in SegLists(MaxSegs) \ {<<>>}}

InitNames ==
    /\ cls = "HdfMap"
    /\ filename = NewMap.filename
    /\ groups = NewMap.groups
    /\ classes = NewMap.classes
    /\ datasets = NewMap.datasets
    /\ arrays = NewMap.arrays
    /\ values = NewMap.values
    /\ scannables = NewMap.scannables
    /\ combined = NewMap.combined
    /\ image_data = NewMap.image_data
    /\ default_image_address = NewMap.default_image_address
    /\ log = NewMap.log
    /\ \E a \in DrawnAddresses : op = Call("", "", <<>>, a, 0, <<>>, PyNone)
    /\ ret = PyNone
    /\ calls = <<>>

Address2Name ==
    /\ op.name = ""
    /\ Reads(PyStr(address2name(op.arg)), [op EXCEPT !.name = "address2name"])

NextNames == Address2Name

SpecNames == InitNames /\ [][NextNames]_vars

(***************************************************************************)
(* Properties.                                                             *)
(***************************************************************************)
AllKeys(d1, d2) == DictKeys(d1) \cup DictKeys(d2)

\* C1: get_address(x) resolves x in a fixed order: x itself when x is a key
\* of datasets or of groups; otherwise combined[x]; otherwise image_data[x];
\* otherwise the first address of classes[x]; otherwise None.  It raises for
\* no string x in any state of the map.
C1_ResolutionOrder ==
    (op.name = "get_address" /\ op.arg.t = "str") =>
        LET x == op.arg.v
        IN /\ ret.t # "raise"
           /\ IF x \in AllKeys(datasets, groups) THEN ret = PyStr(x)
              ELSE IF x \in DictKeys(combined) THEN ret = PyStr(DictGet(combined, x))
              ELSE IF x \in DictKeys(image_data) THEN ret = PyStr(DictGet(image_data, x))
              ELSE IF x \in DictKeys(classes) THEN ret = PyStr(Head(DictGet(classes, x)))
              ELSE ret = PyNone

\* C1 witness: a name that only image_data holds resolved to its address,
\* with a map in which every stage of the order has keys
C1_Witness ==
    /\ op.name = "get_address"
    /\ op.arg = PyStr("det_data")
    /\ "det_data" \notin AllKeys(datasets, groups) \cup DictKeys(combined)
    /\ ret = PyStr("/entry/inst/det/data")
    /\ Len(combined) > 0
    /\ Len(classes) > 0

\* C2: every key of datasets or of groups starts with the separator, does
\* not end with it, and get_address returns it unchanged.
C2_AddressesCanonical ==
    \A a \in AllKeys(datasets, groups) :
        /\ StartsWith(a, SEP)
        /\ ~EndsWith(a, SEP)
        /\ get_address(Self, PyStr(a)) = PyStr(a)

\* the name that the rule gives an address of two or more segments: the last
\* segment with '.' replaced, the segment before it when the last is "value"
RuleName(text) ==
    LET segs == Split(Replace(text, ".", "_"), SEP)
    IN IF Last(segs) = VALUE THEN segs[Len(segs) - 1] ELSE Last(segs)

\* C3: the name derived from an address is its last segment with every '.'
\* replaced by '_', and the second-to-last segment when the last segment is
\* exactly "value".
C3_NameFromAddress ==
    (op.name = "address2name" /\ Len(Split(op.arg.v, SEP)) >= 2) =>
        ret = PyStr(RuleName(op.arg.v))

\* the segment before the last of an address
ParentSegment(address) == Split(address, SEP)[Len(Split(address, SEP)) - 1]

\* C4: when traversal stores a dataset, its address is written under its
\* Name into exactly one of values and arrays by the number of dimensions of
\* its DatasetRecord shape: 0 dimensions into values and not arrays, 1 or
\* more into arrays and not values; and it is written into image_data, under
\* the Name and under '<parent-segment>_<Name>', exactly when it has 3 or
\* more dimensions.
C4_StoredByDimensions ==
    \A i \in 1..Len(log) :
        log[i].what = "dataset" =>
            /\ DictHas(datasets, log[i].address)
            /\ LET address == log[i].address
                   name == DictGet(datasets, address).name
                   ndim == Len(DictGet(datasets, address).shape)
                   before == log[i].before
                   after == log[i].after
               IN /\ ndim = 0 =>
                        /\ DictHas(after.values, name)
                        /\ DictGet(after.values, name) = address
                        /\ after.arrays = before.arrays
                  /\ ndim >= 1 =>
                        /\ DictHas(after.arrays, name)
                        /\ DictGet(after.arrays, name) = address
                        /\ after.values = before.values
                  /\ ndim >= 3 =>
                        /\ DictHas(after.image_data, name)
                        /\ DictGet(after.image_data, name) = address
                        /\ DictHas(after.image_data, ParentSegment(address) \o "_" \o name)
                        /\ DictGet(after.image_data, ParentSegment(address) \o "_" \o name)
                              = address
                  /\ ndim < 3 => after.image_data = before.image_data

\* C4 witness: one traversal stored a dataset without dimensions, one of one
\* dimension and one of three, the last as image data named det_data
C4_Witness ==
    /\ \E i \in 1..Len(log) : log[i].what = "dataset" /\ Len(log[i].shape) = 0
    /\ \E i \in 1..Len(log) : log[i].what = "dataset" /\ Len(log[i].shape) = 1
    /\ \E i \in 1..Len(log) :
          /\ log[i].what = "dataset"
          /\ Len(log[i].shape) = 3
          /\ ~DictHas(log[i].before.image_data, "det_data")
          /\ DictHas(log[i].after.image_data, "det_data")

GenerateCalls ==
    {"generate_scannables", "generate_scannables_from_group", "generate_scannables_from_names"}

\* C5: right after a generate_scannables* call completes, the keys of
\* combined are the keys of values, arrays and scannables together, and
\* combined[n] is scannables[n] if n is in scannables, else arrays[n] if n is
\* in arrays, else values[n].
C5_CombinedPrecedence ==
    (op.name \in GenerateCalls /\ ret.t # "raise") =>
        /\ DictKeys(combined) = DictKeys(values) \cup DictKeys(arrays) \cup DictKeys(scannables)
        /\ \A n \in DictKeys(combined) :
              DictGet(combined, n) =
                 IF n \in DictKeys(scannables) THEN DictGet(scannables, n)
                 ELSE IF n \in DictKeys(arrays) THEN DictGet(arrays, n)
                 ELSE DictGet(values, n)

\* C5 witness: after generate_scannables, a name that values, arrays and
\* scannables all hold, with another address in values, has the scannables
\* address in combined
C5_Witness ==
    /\ op.name = "generate_scannables"
    /\ ret = PyNone
    /\ "x" \in DictKeys(values) \cap DictKeys(arrays) \cap DictKeys(scannables)
    /\ DictGet(values, "x") # DictGet(scannables, "x")
    /\ DictGet(combined, "x") = DictGet(scannables, "x")

\* C6: get_data(handle, x, default=d) returns d, and does not raise, when x
\* does not resolve to an address in the map or resolves to an address that
\* the handle lacks; the call leaves the map unchanged.
C6_DefaultOnAbsence ==
    /\ [](op.name = "get_data" =>
            LET address == get_address(Self, op.arg)
            IN (address = PyNone \/ ~H5Contains(FileNamed(op.file), address.v))
                  => ret = op.dflt)
    /\ [][op'.name = "get_data" => UNCHANGED mapvars]_vars

\* C6 witness: a map built on scan1.nxs, asked for the detector data of
\* scan2.nxs, which has none, returned the default 0
C6_Witness ==
    /\ op.name = "get_data"
    /\ filename = "scan1.nxs"
    /\ op.file = "scan2.nxs"
    /\ op.arg = PyStr("data")
    /\ get_address(Self, op.arg) = PyStr("/entry/inst/det/data")
    /\ op.dflt = PyInt(0)
    /\ ret = PyInt(0)

\* every name that some namespace or record dictionary of the map holds
ResolvableNames ==
    DictKeys(datasets) \cup DictKeys(groups) \cup DictKeys(combined)
        \cup DictKeys(image_data) \cup DictKeys(classes)

\* C7: in a state reached by populate followed by a generate_scannables*
\* call (a group given to it being of the populated file), for every name n
\* that get_address resolves, get_data(handle, get_address(n)) returns what
\* get_data(handle, n) returns, for the same handle, index and default.
C7_AddressRoundTrip ==
    (/\ Len(calls) = 2
     /\ calls[1] = [name |-> "populate", raised |-> FALSE]
     /\ calls[2].name \in GenerateCalls
     /\ ~calls[2].raised
     /\ op.name = calls[2].name
     /\ op.file \in {"", filename}) =>
        \A n \in ResolvableNames, f \in Files, d \in Defaults :
            get_address(Self, PyStr(n)) # PyNone =>
                get_data(Self, f, get_address(Self, PyStr(n)), "()", d)
                    = get_data(Self, f, PyStr(n), "()", d)

\* C8: once set_image_address(x) has set a default image address,
\* get_image_address returns it in preference to the detected address, in
\* HdfMap and NexusMap alike, until set_image_address(None) clears it; with
\* none set the detected address is returned, and None when there is none.
C8_OverridePreferred ==
    op.name = "get_image_address" =>
        IF default_image_address # PyNone THEN ret = default_image_address
        ELSE IF Len(image_data) = 0 THEN ret = PyNone
        ELSE ret.t = "str" => \E i \in 1..Len(image_data) : ret.v = image_data[i].v

\* the paths of a file that resolve to a dataset
ResolvableDatasets(file) == {p \in DOMAIN file.tree : file.tree[p].type = "dataset"}

\* the path without its last key
ParentPath(path) == SubSeq(path, 1, Len(path) - 1)

\* the resolvable datasets that are entries of their group themselves, not
\* reached through a soft link
OwnDatasets(file) == {p \in ResolvableDatasets(file) : file.tree[p].link # "soft"}

\* the traversal logged went on after every entry it skipped: each later
\* sibling of a skipped entry has a later line in the log
SiblingsVisited(file) ==
    \A i \in 1..Len(log) :
        log[i].what = "skipped" =>
            LET parent == ParentPath(PathOf(log[i].address))
                keys == file.tree[parent].keys
            IN \A k \in 1..Len(keys) :
                  keys[k] = log[i].key =>
                     \A later \in (k + 1)..Len(keys) :
                        \E j \in (i + 1)..Len(log) :
                           PathOf(log[j].address) = parent \o <<keys[later]>>

C10_LengthNeverRaises ==
    op.name = "scannables_length" =>
        /\ ret.t = "int"
        /\ Len(scannables) = 0 => ret = PyInt(0)
        /\ Len(scannables) > 0 =>
              \E i \in 1..Len(scannables) :
                 /\ DictHas(datasets, scannables[i].v)
                 /\ Len(DictGet(datasets, scannables[i].v).shape) > 0
                 /\ ret = PyInt(DictGet(datasets, scannables[i].v).shape[1])

\* the value that get_metadata is to give a values entry
MetadataValue(file, address, default) ==
    IF H5Contains(file, address) THEN PyData(file.filename, PathOf(address), "()") ELSE default

\* C11: get_metadata(handle, default=d) returns a mapping with one key for
\* every name in values, bound to the value read from the handle when the
\* address is in the handle and to d when it is not, plus the extra pairs;
\* where an extra key is a values name too, the values entry wins.
C11_MetadataOfValues ==
    op.name = "get_metadata" =>
        /\ ret.t = "dict"
        /\ DictKeys(ret.v) = DictKeys(values) \cup DictKeys(extra_hdf_data(FileNamed(op.file)))
        /\ \A i \in 1..Len(ret.v), j \in 1..Len(ret.v) : ret.v[i].k = ret.v[j].k => i = j
        /\ \A n \in DictKeys(ret.v) :
              DictGet(ret.v, n) =
                 IF n \in DictKeys(values)
                 THEN MetadataValue(FileNamed(op.file), DictGet(values, n), op.dflt)
                 ELSE DictGet(extra_hdf_data(FileNamed(op.file)), n)

\* C11 witness: metadata of scan2.nxs through the map of scan1.nxs: the
\* dataset named filename, which scan2.nxs lacks, gives the default 0 and not
\* the extra of that name, a dataset that scan2.nxs has is read, and the
\* extra filepath is there
C11_Witness ==
    /\ op.name = "get_metadata"
    /\ filename = "scan1.nxs"
    /\ op.file = "scan2.nxs"
    /\ op.dflt = PyInt(0)
    /\ ret.t = "dict"
    /\ DictHas(values, "filename")
    /\ DictGet(ret.v, "filename") = PyInt(0)
    /\ \E n \in DictKeys(values) : DictGet(ret.v, n).t = "data"
    /\ DictGet(ret.v, "filepath") = PyStr("data/scan2.nxs")

\* C12: the map object is a read-only view of combined: map[name] returns
\* combined[name], name in map is true exactly when name is a key of
\* combined, and iterating the map yields one item per key of combined and
\* stops without error.
C12_ViewOfCombined ==
    /\ (op.name = "__getitem__" /\ op.arg.v \in DictKeys(combined)) =>
          ret = PyStr(DictGet(combined, op.arg.v))
    /\ op.name = "__contains__" =>
          /\ ret.t = "bool"
          /\ ret.b = (op.arg.v \in DictKeys(combined))
    /\ op.name = "__iter__" =>
          /\ ret.t = "list"
          /\ Len(ret.v) = Len(combined)

\* C13: right after a map is populated with a file that has datasets, without
\* any further call, combined holds every name of values and of arrays, and
\* scannables is derived: scannables_length() is the first dimension of the
\* arrays that have the most common size.
C13_UsableAfterPopulate ==
    (/\ op.name = "populate"
     /\ calls = <<[name |-> "populate", raised |-> FALSE]>>
     /\ Len(datasets) > 0) =>
        /\ DictKeys(values) \cup DictKeys(arrays) \subseteq DictKeys(combined)
        /\ \A r \in most_common_size(Self) :
              r.t = "int" =>
                 \E i \in 1..Len(arrays) :
                    /\ DictGet(datasets, arrays[i].v).size = r.v
                    /\ scannables_length(Self)
                          = PyInt(DictGet(datasets, arrays[i].v).shape[1])

\* C14: generate_scannables_from_names(candidates) fails silently when none
\* of the candidate names, after name normalisation, is a key of arrays: the
\* call completes without raising and leaves scannables empty.
C14_NoMatchIsSilent ==
    (/\ op.name = "generate_scannables_from_names"
     /\ \A i \in 1..Len(op.names) :
           address2name(PyStr(op.names[i])) \notin DictKeys(arrays)) =>
        /\ ret.t # "raise"
        /\ scannables = EmptyDict

\* C15: the NeXus default detection is fail-soft: for a hierarchy in which a
\* step of the chain (default entry attribute or first child, default data
\* group or 'measurement', 'axes', 'signal', or the datasets they name) is
\* missing, a file without children included, NexusMap.populate does not
\* raise, and the generic traversal still records the datasets of the file.
C15_DetectionFailSoft ==
    (/\ op.name = "populate"
     /\ cls = "NexusMap"
     /\ op.file \in {f.filename : f \in IncompleteFiles}) =>
        /\ ret.t # "raise"
        /\ op.arg = PyNone =>
              {NameOf(p) : p \in OwnDatasets(FileNamed(op.file))} \subseteq DictKeys(datasets)

\* C16: most_common_size() returns a size s > 1 such that no other size > 1
\* is the size of more arrays entries than s is, each key of arrays counted
\* once; it never returns 0 or 1, nor a size that no arrays entry has.
C16_MostCommonSize ==
    op.name = "most_common_size" =>
        /\ ret.t = "int"
        /\ ret.v > 1
        /\ \E i \in 1..Len(arrays) : DictGet(datasets, arrays[i].v).size = ret.v
        /\ \A j \in 1..Len(arrays) :
              LET EntriesOfSize(n) ==
                     {i \in 1..Len(arrays) : DictGet(datasets, arrays[i].v).size = n}
                  other == DictGet(datasets, arrays[j].v).size
              IN other > 1 =>
                    Cardinality(EntriesOfSize(other)) <= Cardinality(EntriesOfSize(ret.v))

\* a populate call that returned is followed at once by the same populate
\* call, on the same file with the same arguments, which returns too
PopulateAgain ==
    /\ op.name = "populate"
    /\ ret.t # "raise"
    /\ op'.name = "populate"
    /\ ret'.t # "raise"
    /\ op'.file = op.file
    /\ op'.arg = op.arg
    /\ Len(calls') = Len(calls) + 1

\* C17: traversal is idempotent on the record and namespace dictionaries: a
\* second populate on the same hierarchy leaves groups, datasets, values,
\* arrays and image_data equal to what they were after the first, and each
\* list of classes grows only by the addresses that the first call appended.
C17_PopulateIdempotent ==
    [][PopulateAgain =>
          /\ UNCHANGED <<groups, datasets, values, arrays, image_data>>
          /\ DictKeys(classes') = DictKeys(classes)
          /\ Len(calls) = 1 =>
                \A tag \in DictKeys(classes) :
                    DictGet(classes', tag) = DictGet(classes, tag) \o DictGet(classes, tag)]_vars

\* C17 witness: scan1.nxs populated twice in a row and nothing else: the
\* NXentry class lists /entry twice, one DatasetRecord per dataset
C17_Witness ==
    /\ calls = <<[name |-> "populate", raised |-> FALSE],
                 [name |-> "populate", raised |-> FALSE]>>
    /\ op.name = "populate"
    /\ op.file = "scan1.nxs"
    /\ DictHas(classes, "NXentry")
    /\ DictGet(classes, "NXentry") = <<"/entry", "/entry">>
    /\ Cardinality(DictKeys(datasets)) = Cardinality(OwnDatasets(File1))
    /\ Len(datasets) = Cardinality(DictKeys(datasets))

\* every address that a namespace or a record dictionary holds
RecordedAddresses ==
    AllKeys(datasets, groups) \cup DictValueSet(values) \cup DictValueSet(arrays)
        \cup DictValueSet(image_data) \cup DictValueSet(scannables)

\* C18 as stated: no address recorded by traversal (no key of datasets or
\* groups, no address in values, arrays, image_data or scannables) contains
\* a '.': a '.' in a child's key is substituted when its address is built.
C18_NoDotInAddress ==
    \A a \in RecordedAddresses : ~Contains(a, ".")

\* C18 amended: the '.' of a child's key is substituted in the names only:
\* no key of values or of arrays contains a '.', while the address that
\* traversal builds for a child ends with the child's key as it is, '.'
\* included.
C18_DotsLeaveNamesOnly ==
    /\ \A n \in DictKeys(values) \cup DictKeys(arrays) : ~Contains(n, ".")
    /\ \A i \in 1..Len(log) :
          log[i].what \in {"group", "dataset"} =>
             /\ Last(Split(log[i].address, SEP)) = log[i].key
             /\ log[i].address \in AllKeys(datasets, groups)

\* C18 witness: the dataset with key 't.s' was stored at the address
\* '/entry/t.s' and named 't_s'
C18_Witness ==
    /\ \E i \in 1..Len(log) :
          /\ log[i].what = "dataset"
          /\ log[i].key = "t.s"
          /\ log[i].address = "/entry/t.s"
    /\ DictHas(datasets, "/entry/t.s")
    /\ DictHas(arrays, "t_s")
    /\ DictGet(arrays, "t_s") = "/entry/t.s"
    /\ ~DictHas(arrays, "t.s")

\* C19: with a group filter, a group met at any depth is recorded but its
\* children are visited only if the group's key or its class is in the
\* filter, so that no child is visited whose enclosing group, below the root
\* of the traversal, has neither in the filter; with recursive=False no
\* child group is entered.
C19_FilterAtEveryDepth ==
    /\ (/\ op.name = "populate"
        /\ cls = "NexusMap"
        /\ op.arg.t = "list"
        /\ calls = <<[name |-> "populate", raised |-> FALSE]>>) =>
          LET file == FileNamed(op.file)
              entry == PathOf(DefaultEntryKey(file).v)
              data == entry \o PathOf(DefaultDataKey(file, entry))
          IN \A i \in 1..Len(log) :
                LET parent == ParentPath(PathOf(log[i].address))
                IN parent \notin {entry, data} =>
                      InFilter(op.arg, Last(parent), NxClassOf(file.tree[parent]))
    /\ op.name = "generate_scannables_from_group" =>
          \A i \in 1..Len(log) : ParentPath(PathOf(log[i].address)) = op.path


\* the keys of the children of the group at gpath that are datasets
RECURSIVE DatasetChildren(_, _, _)
DatasetChildren(file, gpath, keys) ==
    IF Len(keys) = 0 THEN <<>>
    ELSE (IF Resolves(file, gpath \o <<Head(keys)>>)
             /\ file.tree[gpath \o <<Head(keys)>>].type = "dataset"
          THEN <<Head(keys)>> ELSE <<>>)
         \o DatasetChildren(file, gpath, Tail(keys))

\* C20: generate_scannables_from_group takes as reference the size of the
\* first dataset among the children of the group, sub-groups skipped, sets
\* scannables to exactly the direct-child datasets of that size, each at the
\* group address (the override when given) followed by its key, and
\* completes without error when the first child is a sub-group.
C20_FirstDatasetIsReference ==
    op.name = "generate_scannables_from_group" =>
       LET file == FileNamed(op.file)
           keys == file.tree[op.path].keys
           found == DatasetChildren(file, op.path, keys)
           address == IF op.arg.t = "None" THEN NameOf(op.path) ELSE op.arg.v
       IN (/\ \A i \in 1..Len(keys) : Resolves(file, op.path \o <<keys[i]>>)
           /\ Len(found) > 0) =>
             /\ ret.t # "raise"
             /\ scannables = GroupScannables(file, op.path, keys, address,
                                 SizeOf(file.tree[op.path \o <<found[1]>>]))


\* the addresses address becomes when trailing segments are taken off it,
\* itself included, down to the empty one
Prefixes(address) ==
    LET parts == Split(address, SEP)
    IN {Join(SEP, SubSeq(parts, 1, k)) : k \in 0..Len(parts)}

\* C21: get_group_address terminates, in at most as many iterations as the
\* resolved address has segments, and raises nothing; when the argument
\* resolves to an address the result is the longest prefix of it that is a
\* key of groups, and the empty string when no prefix is one; when the
\* argument does not resolve the result is None.
C21_GroupAddress ==
    op.name = "get_group_address" =>
       LET address == get_address(Self, op.arg)
       IN /\ ret.t \in {"None", "str"}
          /\ address.t = "None" => ret = PyNone
          /\ address.t = "str" =>
                LET found == {p \in Prefixes(address.v) : DictHas(groups, p)}
                IN /\ ret.t = "str"
                   /\ GroupWalk(Self, address, 0).steps <= Len(Split(address.v, SEP))
                   /\ found = {} => ret.v = ""
                   /\ found # {} =>
                         /\ ret.v \in found
                         /\ \A p \in found : Len(p) <= Len(ret.v)

\* a name resolves to the address of a dataset, which is no group, and the
\* call returns the group that holds it
C21_Witness ==
    /\ op.name = "get_group_address"
    /\ op.arg = PyStr("data")
    /\ ret = PyStr("/entry/inst/det")
    /\ get_address(Self, op.arg) = PyStr("/entry/inst/det/data")


\* C22: in every state reached by populate and generate_scannables* calls,
\* scannables is a part of arrays with one size: every address in scannables
\* is an address in arrays, of a dataset with at least one dimension, and
\* all the datasets in scannables have the same size.  Stated for the
\* addresses that have a DatasetRecord.
C22_ScannablesAreArrays ==
    LET recorded == {a \in DictValueSet(scannables) : DictHas(datasets, a)}
    IN /\ \A a \in recorded :
             /\ Len(DictGet(datasets, a).shape) >= 1
             /\ a \in DictValueSet(arrays)
       /\ \A a, b \in recorded : DictGet(datasets, a).size = DictGet(datasets, b).size


\* C23: in every state reached by HdfMap.populate, NexusMap.populate and
\* generate_scannables* calls on files that may hold soft links, every
\* address that is a value of values, arrays, image_data, scannables or
\* combined is a key of datasets.  Stated for the states after the first
\* call on a map, the group of generate_scannables_from_group being given
\* without an address of the caller.
C23_ReferentialIntegrity ==
    (/\ Len(calls) = 1
     /\ op.name = calls[1].name
     /\ op.name = "generate_scannables_from_group" => op.arg = PyNone) =>
        \A a \in DictValueSet(values) \cup DictValueSet(arrays) \cup DictValueSet(image_data)
                    \cup DictValueSet(scannables) \cup DictValueSet(combined) :
            DictHas(datasets, a)

====
